---- MODULE Spec2Model ----
(***************************************************************************)
(* requests_toolbelt.adapters.socket_options                               *)
(*                                                                         *)
(* SocketOptionsAdapter stores a list of socket options at construction    *)
(* and hands it to every urllib3 PoolManager that init_poolmanager builds. *)
(* TCPKeepAliveAdapter builds a keep-alive option list and delegates to    *)
(* SocketOptionsAdapter.                                                   *)
(*                                                                         *)
(* Python lists are objects: the model keeps them in a heap and adapters   *)
(* and pool managers hold references (heap indices), so that sharing of    *)
(* the process-wide default list is visible.                               *)
(***************************************************************************)
EXTENDS Integers, Sequences, FiniteSets, TLC

VARIABLES
    build,      \* requests.__build__ of the installed requests
    heap,       \* list objects: heap[r] is the content of the list with reference r
    adapters,   \* adapter objects, in order of creation
    pools,      \* PoolManager objects ever created: the keyword arguments each got
    calls,      \* history: every init_poolmanager invocation and what it did
    ctor,       \* history: the constructor call that made each adapter
    raised      \* history: the last exception that left a constructor, if any

vars == <<build, heap, adapters, pools, calls, ctor, raised>>

----------------------------------------------------------------------------
(* Bounds of the model *)

\* init_poolmanager invocations (one per constructed adapter, plus the later ones)
MaxCalls == 3

----------------------------------------------------------------------------
(* The environment: the socket module, requests, urllib3 and the callers *)

\* The names the socket module defines (Linux values), among those used here.
SocketModule ==
    [SOL_SOCKET |-> 1, SO_KEEPALIVE |-> 9, IPPROTO_TCP |-> 6, TCP_NODELAY |-> 1,
     TCP_KEEPIDLE |-> 4, TCP_KEEPINTVL |-> 5, TCP_KEEPCNT |-> 6]

\* Builds of requests the module may be installed with: 2.3.0, 2.4.0, 2.4.1.
Builds == {131840, 132096, 132097}

\* connection.HTTPConnection.default_socket_options: [(IPPROTO_TCP, TCP_NODELAY, 1)]
default_socket_options == << <<6, 1, 1>> >>

\* The option lists a caller builds and passes as socket_options=...
CallerLists ==
    { << <<6, 1, 0>> >>,
      << <<6, 1, 0>>, <<1, 9, 1>> >>,
      << <<1, 9, 1>>, <<6, 1, 0>> >> }

----------------------------------------------------------------------------
(* Keyword-argument dictionaries *)

EmptyKwargs == [k \in {} |-> 0]

\* dict.pop(key, default): the value returned
Pop(kwargs, key, default) ==
    IF key \in DOMAIN kwargs THEN kwargs[key] ELSE default

\* dict.pop(key, default): the dictionary left behind
Popped(kwargs, key) ==
    [k \in (DOMAIN kwargs) \ {key} |-> kwargs[k]]

----------------------------------------------------------------------------
(* SocketOptionsAdapter *)

\* SocketOptionsAdapter.default_options: a reference to urllib3's list object
default_options == 1

\* Variant: the given list is ignored and the default list always stored
ResolveSocketOptions_alwaysDefault(kwargs) ==
    default_options

\* Variant: kwargs.pop('socket_options', None)
ResolveSocketOptions_defaultNone(kwargs) ==
    Pop(kwargs, "socket_options", 0)

\* Line 40-41: the reference stored in self.socket_options
ResolveSocketOptions(kwargs) ==
    Pop(kwargs, "socket_options", default_options)

\* Variant: kwargs.get in place of kwargs.pop
ForwardedKwargs_notPopped(kwargs) ==
    kwargs

\* Line 40-43: what is left in kwargs for the base constructor
ForwardedKwargs(kwargs) ==
    Popped(kwargs, "socket_options")

\* Line 39-41: the adapter object after the assignment, before the base
\* constructor has run; base_kwargs is what line 43 will pass on
SocketOptionsAdapter_init(cls, kwargs) ==
    [cls |-> cls,
     socket_options |-> ResolveSocketOptions(kwargs),
     base_kwargs |-> ForwardedKwargs(kwargs),
     poolmanager |-> 0]

\* Line 46: 0x020400, the build of requests 2.4.0
SOCKET_OPTIONS_BUILD == 132096

\* Variant: > in place of >=
SupportsSocketOptions_strict(b) == b > SOCKET_OPTIONS_BUILD

\* Line 46: requests.__build__ >= 0x020400
SupportsSocketOptions(b) == b >= SOCKET_OPTIONS_BUILD

\* Line 45: block=False
DefaultBlock == FALSE

\* Variant: connections and maxsize exchanged
PoolManagerKw_swapped(self, connections, maxsize, block) ==
    [num_pools |-> maxsize, maxsize |-> connections, block |-> block,
     socket_options |-> self.socket_options]

\* Variant: the class's default_options in place of self.socket_options
PoolManagerKw_classDefault(self, connections, maxsize, block) ==
    [num_pools |-> connections, maxsize |-> maxsize, block |-> block,
     socket_options |-> default_options]

\* Line 47-52: the keyword arguments of poolmanager.PoolManager(...)
PoolManagerKw(self, connections, maxsize, block) ==
    [num_pools |-> connections, maxsize |-> maxsize, block |-> block,
     socket_options |-> self.socket_options]

\* Line 54-56: the base init_poolmanager gets the three arguments and builds
\* its pool manager without socket options
BasePoolManagerKw(self, connections, maxsize, block) ==
    [num_pools |-> connections, maxsize |-> maxsize, block |-> block]

\* Variant: an existing pool manager is kept
SetPoolManager_keepsExisting(self, pm) ==
    IF self.poolmanager # 0 THEN self ELSE [self EXCEPT !.poolmanager = pm]

\* Variant: the option list is dropped once it has been handed over
SetPoolManager_dropsOptions(self, pm) ==
    [self EXCEPT !.poolmanager = pm, !.socket_options = default_options]

\* Line 47 (and the base class on line 54): self.poolmanager = <the new
\* object>; nothing else of self changes
SetPoolManager(self, pm) ==
    [self EXCEPT !.poolmanager = pm]

\* Line 45-56: init_poolmanager(self, connections, maxsize, block) under build
\* b, where pm is the identity of the pool manager object it creates: the
\* adapter afterwards, the keyword arguments the new PoolManager got, and
\* which branch built it
init_poolmanager(self, b, pm, connections, maxsize, block) ==
    IF SupportsSocketOptions(b)
    THEN [self |-> SetPoolManager(self, pm),
          kw |-> PoolManagerKw(self, connections, maxsize, block),
          path |-> "PoolManager"]
    ELSE [self |-> SetPoolManager(self, pm),
          kw |-> BasePoolManagerKw(self, connections, maxsize, block),
          path |-> "super"]

\* Line 43: the base constructor, requests' HTTPAdapter.__init__, called with
\* the forwarded kwargs: it calls self.init_poolmanager(pool_connections,
\* pool_maxsize, block=pool_block), each 10, 10, False unless given
BaseInitArgs(self) ==
    [connections |-> Pop(self.base_kwargs, "pool_connections", 10),
     maxsize |-> Pop(self.base_kwargs, "pool_maxsize", 10),
     block |-> Pop(self.base_kwargs, "pool_block", FALSE)]

----------------------------------------------------------------------------
(* TCPKeepAliveAdapter *)

\* Line 85-87: the defaults of idle, interval and count
DefaultIdle == 60
DefaultInterval == 20
DefaultCount == 5

\* Line 89-92: the attributes of the socket module the list display reads,
\* in the order Python evaluates them
KeepAliveNames ==
    <<"SOL_SOCKET", "SO_KEEPALIVE", "IPROTO_TCP", "TCP_KEEPIDLE",
      "IPROTO_TCP", "TCP_KEEPINTVL", "IPROTO_TCP", "TCP_KEEPCNT">>

\* Reading an attribute the socket module does not define raises
\* AttributeError
KeepAliveRaises ==
    \E i \in DOMAIN KeepAliveNames : KeepAliveNames[i] \notin DOMAIN SocketModule

\* Line 88-93: the value of default_options + [...] when every attribute
\* lookup succeeds
KeepAliveOptions(h, idle, interval, count) ==
    LET n == KeepAliveNames
        s == SocketModule
    IN h[default_options] \o
       << <<s[n[1]], s[n[2]], 1>>,
          <<s[n[3]], s[n[4]], idle>>,
          <<s[n[5]], s[n[6]], interval>>,
          <<s[n[7]], s[n[8]], count>> >>

\* Variant: the entries are appended one by one to default_options itself,
\* so the first entry is in the shared list when the second one raises
KeepAliveListExpr_appendsInPlace(h, idle, interval, count) ==
    [heap |-> [h EXCEPT ![default_options] =
                  Append(@, <<SocketModule.SOL_SOCKET, SocketModule.SO_KEEPALIVE, 1>>)],
     exc |-> "AttributeError", ref |-> 0]

\* Line 88-93: the assignment socket_options = default_options + [...] on
\* heap h.  The display is evaluated first; list + list then builds a new
\* list object and leaves both operands alone.
KeepAliveListExpr(h, idle, interval, count) ==
    IF KeepAliveRaises
    THEN [heap |-> h, exc |-> "AttributeError", ref |-> 0]
    ELSE [heap |-> Append(h, KeepAliveOptions(h, idle, interval, count)),
          exc |-> "", ref |-> Len(h) + 1]

\* Line 85-87: the kwargs left after the three pops
KeepAliveForwarded(kwargs) ==
    Popped(Popped(Popped(kwargs, "idle"), "interval"), "count")

\* The keyword arguments callers construct a TCPKeepAliveAdapter with: none,
\* the docstring's example (line 78), count alone, all three
KeepAliveKwargs ==
    { EmptyKwargs,
      [idle |-> 120, interval |-> 10],
      [count |-> 3],
      [idle |-> 120, interval |-> 10, count |-> 3] }

----------------------------------------------------------------------------
(* Initial state: the module is imported, nothing is constructed *)

Init ==
    /\ build \in Builds
    /\ heap = <<default_socket_options>>
    /\ adapters = <<>>
    /\ pools = <<>>
    /\ calls = <<>>
    /\ ctor = <<>>
    /\ raised = <<>>

----------------------------------------------------------------------------
(* Actions *)

\* The entry of the call history for one init_poolmanager invocation
CallRecord(a, connections, maxsize, blockGiven, blockArg, duringInit, r) ==
    [self |-> a, connections |-> connections, maxsize |-> maxsize,
     block_given |-> blockGiven, block_arg |-> blockArg,
     during_init |-> duringInit, path |-> r.path,
     poolmanager |-> r.self.poolmanager]

\* Line 39-43 as a whole: self0 is the adapter as line 40-41 leave it; the
\* base constructor then initialises the pool through self.init_poolmanager.
\* cls, kwargs and L (the content of the list passed as socket_options, if
\* one was) go to the history.
Construct(self0, cls, kwargs, L) ==
    LET a == Len(adapters) + 1
        args == BaseInitArgs(self0)
        r == init_poolmanager(self0, build, Len(pools) + 1,
                              args.connections, args.maxsize, args.block)
    IN /\ adapters' = Append(adapters, r.self)
       /\ pools' = Append(pools, r.kw)
       /\ calls' = Append(calls,
              CallRecord(a, args.connections, args.maxsize, TRUE, args.block,
                         TRUE, r))
       /\ ctor' = Append(ctor, [cls |-> cls, kwargs |-> kwargs, L |-> L])

\* Configuration callers pass on to the base constructor
OtherKwargs == {EmptyKwargs, [pool_connections |-> 2, pool_block |-> TRUE]}

\* kwargs with socket_options=ref added
WithSocketOptions(kwargs, ref) ==
    [k \in (DOMAIN kwargs) \cup {"socket_options"} |->
        IF k = "socket_options" THEN ref ELSE kwargs[k]]

\* SocketOptionsAdapter(**kwargs) with socket_options omitted
ConstructDefault ==
    /\ Len(calls) < MaxCalls
    /\ \E other \in OtherKwargs :
          Construct(SocketOptionsAdapter_init("SocketOptionsAdapter", other),
                    "SocketOptionsAdapter", other, <<>>)
    /\ UNCHANGED <<build, heap, raised>>

\* SocketOptionsAdapter(socket_options=L, ...) where L is a list the caller
\* has just built
ConstructFresh ==
    /\ Len(calls) < MaxCalls
    /\ \E L \in CallerLists, other \in OtherKwargs :
          LET kwargs == WithSocketOptions(other, Len(heap) + 1)
          IN /\ heap' = Append(heap, L)
             /\ Construct(SocketOptionsAdapter_init("SocketOptionsAdapter", kwargs),
                          "SocketOptionsAdapter", kwargs, L)
    /\ UNCHANGED <<build, raised>>

\* SocketOptionsAdapter(socket_options=L) where L is a list object that
\* already exists (the default list, or one passed to an adapter before)
ConstructShared ==
    /\ Len(calls) < MaxCalls
    /\ \E ref \in DOMAIN heap :
          LET kwargs == WithSocketOptions(EmptyKwargs, ref)
          IN Construct(SocketOptionsAdapter_init("SocketOptionsAdapter", kwargs),
                       "SocketOptionsAdapter", kwargs, heap[ref])
    /\ UNCHANGED <<build, heap, raised>>

\* TCPKeepAliveAdapter(**kwargs), line 84-96.  Line 85-93 run before the base
\* constructors are entered; an exception raised there leaves the constructor
\* and no adapter exists.
ConstructKeepAlive ==
    \E kwargs \in KeepAliveKwargs :
       LET idle == Pop(kwargs, "idle", DefaultIdle)
           interval == Pop(kwargs, "interval", DefaultInterval)
           count == Pop(kwargs, "count", DefaultCount)
           e == KeepAliveListExpr(heap, idle, interval, count)
       IN IF e.exc # ""
          THEN /\ heap' = e.heap
               /\ raised' = <<[cls |-> "TCPKeepAliveAdapter", exc |-> e.exc,
                               kwargs |-> kwargs]>>
               /\ UNCHANGED <<build, adapters, pools, calls, ctor>>
          ELSE /\ Len(calls) < MaxCalls
               /\ heap' = e.heap
               /\ Construct(SocketOptionsAdapter_init("TCPKeepAliveAdapter",
                               WithSocketOptions(KeepAliveForwarded(kwargs), e.ref)),
                            "TCPKeepAliveAdapter", kwargs, e.heap[e.ref])
               /\ UNCHANGED <<build, raised>>

\* The arguments callers pass to init_poolmanager:
\* <<connections, maxsize, block given?, block>>
InitArgs ==
    { <<1, 2, FALSE, FALSE>>, <<2, 1, TRUE, TRUE>>, <<2, 2, TRUE, FALSE>> }

\* adapter.init_poolmanager(connections, maxsize[, block]) on a constructed
\* adapter, line 45-56
InitPoolmanager ==
    /\ Len(calls) < MaxCalls
    /\ \E a \in DOMAIN adapters, args \in InitArgs :
          LET block == IF args[3] THEN args[4] ELSE DefaultBlock
              r == init_poolmanager(adapters[a], build, Len(pools) + 1,
                                    args[1], args[2], block)
          IN /\ adapters' = [adapters EXCEPT ![a] = r.self]
             /\ pools' = Append(pools, r.kw)
             /\ calls' = Append(calls,
                    CallRecord(a, args[1], args[2], args[3], args[4], FALSE, r))
    /\ UNCHANGED <<build, heap, ctor, raised>>

Next ==
    \/ ConstructDefault
    \/ ConstructFresh
    \/ ConstructShared
    \/ ConstructKeepAlive
    \/ InitPoolmanager

Spec == Init /\ [][Next]_vars

----------------------------------------------------------------------------
(* Vocabulary of the properties *)

\* The installed requests passes socket options to its pool manager
Supported == build >= SOCKET_OPTIONS_BUILD

\* Adapter a was constructed with socket_options=...
Explicit(a) == "socket_options" \in DOMAIN ctor[a].kwargs

\* The list adapter a was constructed to use: the one passed, else the
\* platform default
ConstructedList(a) ==
    IF Explicit(a) THEN ctor[a].L ELSE default_socket_options

\* The pool manager built by call i was passed a list with content L
Receives(i, L) ==
    /\ "socket_options" \in DOMAIN pools[i]
    /\ pools[i].socket_options \in DOMAIN heap
    /\ heap[pools[i].socket_options] = L

\* The pool manager built by call i was passed the list object its adapter
\* stores
ReceivesStored(i) ==
    /\ "socket_options" \in DOMAIN pools[i]
    /\ pools[i].socket_options = adapters[calls[i].self].socket_options

\* Adapter a stores a reference to a list
HasStoredList(a) == adapters[a].socket_options \in DOMAIN heap

\* The content of the list adapter a stores (nothing when it stores no list)
StoredList(a) ==
    IF HasStoredList(a) THEN heap[adapters[a].socket_options] ELSE <<>>

\* The block argument call i supplied, False when it supplied none
SuppliedBlock(i) ==
    IF calls[i].block_given THEN calls[i].block_arg ELSE FALSE

\* The last init_poolmanager call on adapter a
LastCall(a) ==
    CHOOSE i \in DOMAIN calls :
        /\ calls[i].self = a
        /\ \A j \in DOMAIN calls : calls[j].self = a => j <= i

----------------------------------------------------------------------------
(* C1 *)

\* C1 as stated: for every adapter constructed with an explicit option list
\* L, every pool manager init_poolmanager creates for it receives exactly L
\* (same elements, same order).
C1_ExplicitListReceived_AnyBuild ==
    \A i \in DOMAIN calls :
        Explicit(calls[i].self) => Receives(i, ctor[calls[i].self].L)

\* C1, amended: when the installed requests supports socket options (build
\* >= 0x020400), every pool manager init_poolmanager creates for an adapter
\* constructed with an explicit list L receives exactly L.
C1_ExplicitListReceived ==
    Supported => C1_ExplicitListReceived_AnyBuild

C1_Witness ==
    /\ Supported
    /\ \E i \in DOMAIN calls :
          /\ ~calls[i].during_init
          /\ Explicit(calls[i].self)
          /\ ctor[calls[i].self].L = << <<1, 9, 1>>, <<6, 1, 0>> >>
          /\ Receives(i, << <<1, 9, 1>>, <<6, 1, 0>> >>)

----------------------------------------------------------------------------
(* C2 *)

\* C2 as stated: for every SocketOptionsAdapter constructed without an
\* explicit list, the stored list and the list every pool manager created for
\* it receives equal the platform default list exactly.
C2_DefaultListUsed_AnyBuild ==
    \A a \in DOMAIN adapters :
        (ctor[a].cls = "SocketOptionsAdapter" /\ ~Explicit(a)) =>
            /\ HasStoredList(a)
            /\ StoredList(a) = default_socket_options
            /\ \A i \in DOMAIN calls :
                  calls[i].self = a => Receives(i, default_socket_options)

\* C2, amended: the stored list of such an adapter equals the platform
\* default list on every build, and the pool managers created for it receive
\* that list when the build is >= 0x020400.
C2_DefaultListUsed ==
    \A a \in DOMAIN adapters :
        (ctor[a].cls = "SocketOptionsAdapter" /\ ~Explicit(a)) =>
            /\ HasStoredList(a)
            /\ StoredList(a) = default_socket_options
            /\ Supported =>
                  \A i \in DOMAIN calls :
                      calls[i].self = a => Receives(i, default_socket_options)

C2_Witness ==
    /\ Supported
    /\ \E i \in DOMAIN calls :
          /\ ~calls[i].during_init
          /\ ~Explicit(calls[i].self)
          /\ Receives(i, default_socket_options)

----------------------------------------------------------------------------
(* C3 *)

\* C3 as stated: constructing a TCPKeepAliveAdapter with idle=I, interval=J,
\* count=K (defaults 60, 20, 5) succeeds, and its option list is the default
\* list followed by (SOL_SOCKET, SO_KEEPALIVE, 1), (IPPROTO_TCP, TCP_KEEPIDLE,
\* I), (IPPROTO_TCP, TCP_KEEPINTVL, J), (IPPROTO_TCP, TCP_KEEPCNT, K).
C3_KeepAliveList ==
    /\ \A k \in DOMAIN raised : raised[k].cls # "TCPKeepAliveAdapter"
    /\ \A a \in DOMAIN adapters :
          ctor[a].cls = "TCPKeepAliveAdapter" =>
              StoredList(a) = default_socket_options \o
                  << <<SocketModule.SOL_SOCKET, SocketModule.SO_KEEPALIVE, 1>>,
                     <<SocketModule.IPPROTO_TCP, SocketModule.TCP_KEEPIDLE,
                       Pop(ctor[a].kwargs, "idle", 60)>>,
                     <<SocketModule.IPPROTO_TCP, SocketModule.TCP_KEEPINTVL,
                       Pop(ctor[a].kwargs, "interval", 20)>>,
                     <<SocketModule.IPPROTO_TCP, SocketModule.TCP_KEEPCNT,
                       Pop(ctor[a].kwargs, "count", 5)>> >>

----------------------------------------------------------------------------
(* C4 *)

\* C4: when the build supports socket options, each init_poolmanager call
\* creates a pool manager from exactly num_pools = connections, maxsize =
\* maxsize, block = the supplied block (False when omitted) and socket_options
\* = the adapter's stored list, and the adapter's current pool manager is the
\* one its latest call created.
C4_PoolManagerArguments ==
    Supported =>
        /\ \A i \in DOMAIN calls :
              /\ pools[i] = [num_pools |-> calls[i].connections,
                             maxsize |-> calls[i].maxsize,
                             block |-> SuppliedBlock(i),
                             socket_options |->
                                 adapters[calls[i].self].socket_options]
              /\ calls[i].poolmanager = i
        /\ \A a \in DOMAIN adapters : adapters[a].poolmanager = LastCall(a)

C4_Witness ==
    /\ Supported
    /\ \E i, j \in DOMAIN calls :
          /\ i < j
          /\ calls[i].self = calls[j].self
          /\ ~calls[j].during_init
          /\ ~calls[j].block_given
          /\ calls[j].connections # calls[j].maxsize
          /\ adapters[calls[j].self].poolmanager = j
          /\ pools[j].num_pools = calls[j].connections
          /\ pools[j].block = FALSE

----------------------------------------------------------------------------
(* C5 *)

\* C5 as stated: two init_poolmanager calls on one adapter produce two
\* distinct pool managers, each configured with the adapter's stored option
\* list; all pool managers created for an adapter got the same option list.
C5_DistinctPoolsSameList_AnyBuild ==
    \A i, j \in DOMAIN calls :
        (i < j /\ calls[i].self = calls[j].self) =>
            /\ calls[i].poolmanager # calls[j].poolmanager
            /\ ReceivesStored(i)
            /\ ReceivesStored(j)
            /\ Receives(j, StoredList(calls[i].self))

\* C5, amended: two init_poolmanager calls on one adapter always produce two
\* distinct pool managers; when the build is >= 0x020400 each is configured
\* with the adapter's stored option list, and on older builds neither is
\* passed an option list.
C5_DistinctPoolsSameList ==
    \A i, j \in DOMAIN calls :
        (i < j /\ calls[i].self = calls[j].self) =>
            /\ calls[i].poolmanager # calls[j].poolmanager
            /\ IF Supported
               THEN /\ ReceivesStored(i)
                    /\ ReceivesStored(j)
                    /\ Receives(j, StoredList(calls[i].self))
               ELSE /\ "socket_options" \notin DOMAIN pools[i]
                    /\ "socket_options" \notin DOMAIN pools[j]

C5_Witness ==
    /\ Supported
    /\ \E i, j \in DOMAIN calls :
          /\ i < j
          /\ calls[i].self = calls[j].self
          /\ ~calls[i].during_init
          /\ ~calls[j].during_init
          /\ calls[i].connections = calls[j].connections
          /\ calls[i].maxsize = calls[j].maxsize
          /\ calls[i].block_given = calls[j].block_given
          /\ calls[i].block_arg = calls[j].block_arg
          /\ Explicit(calls[i].self)
          /\ pools[i] = pools[j]

----------------------------------------------------------------------------
(* C6 *)

----------------------------------------------------------------------------
(* C7 *)

\* C7: on a build below 0x020400 every init_poolmanager call goes to the base
\* class with the same connections, maxsize and block, and the pool manager
\* is passed no option list; on a build of 0x020400 or above the call always
\* creates the option-carrying pool manager and never goes to the base class.
\* (init_poolmanager has no raising path in either branch.)
C7_VersionGate ==
    \A i \in DOMAIN calls :
        IF build < SOCKET_OPTIONS_BUILD
        THEN /\ calls[i].path = "super"
             /\ pools[i] = [num_pools |-> calls[i].connections,
                            maxsize |-> calls[i].maxsize,
                            block |-> SuppliedBlock(i)]
        ELSE /\ calls[i].path = "PoolManager"
             /\ "socket_options" \in DOMAIN pools[i]

C7_Witness ==
    /\ build < SOCKET_OPTIONS_BUILD
    /\ \E i \in DOMAIN calls :
          /\ ~calls[i].during_init
          /\ Explicit(calls[i].self)
          /\ calls[i].path = "super"
          /\ "socket_options" \notin DOMAIN pools[i]

----------------------------------------------------------------------------
(* C8 *)

\* The stored list of every adapter is the list it was constructed with
StoredAsConstructed ==
    \A a \in DOMAIN adapters :
        HasStoredList(a) /\ StoredList(a) = ConstructedList(a)

\* A step leaves the stored reference and the content of the stored list of
\* every existing adapter as they were
StoredKept ==
    \A a \in DOMAIN adapters :
        /\ adapters'[a].socket_options = adapters[a].socket_options
        /\ adapters[a].socket_options \in DOMAIN heap
        /\ heap'[adapters[a].socket_options] = heap[adapters[a].socket_options]

\* C8: an adapter's stored option list is fixed at construction: on either
\* branch of init_poolmanager and with any arguments, every step leaves it
\* unchanged in content and order, and it always is the list resolved at
\* construction.
C8_StoredListFixed ==
    [](StoredAsConstructed) /\ [][StoredKept]_vars

C8_Witness ==
    \E i, j \in DOMAIN calls :
        /\ i < j
        /\ calls[i].self = calls[j].self
        /\ ~calls[i].during_init
        /\ ~calls[j].during_init
        /\ Explicit(calls[i].self)
        /\ StoredList(calls[i].self) = << <<6, 1, 0>>, <<1, 9, 1>> >>

----------------------------------------------------------------------------
(* C9 *)

\* C9: the process-wide default list keeps its elements and order through all
\* constructions (of either adapter, with or without options) and all
\* init_poolmanager calls; an adapter constructed without options holds no
\* keep-alive entry.
C9_DefaultListUntouched ==
    /\ heap[default_options] = default_socket_options
    /\ \A a \in DOMAIN adapters :
          ~Explicit(a) =>
              \A k \in DOMAIN StoredList(a) :
                  StoredList(a)[k] #
                      <<SocketModule.SOL_SOCKET, SocketModule.SO_KEEPALIVE, 1>>

C9_Witness ==
    /\ raised # <<>>
    /\ \E a, b \in DOMAIN adapters :
          /\ Explicit(a)
          /\ ~Explicit(b)
          /\ adapters[b].socket_options = default_options
          /\ \E i \in DOMAIN calls : calls[i].self = b /\ ~calls[i].during_init

----------------------------------------------------------------------------
(* C10 *)

\* The configuration forwarded to the base constructor is the constructor's
\* kwargs without socket_options, idle, interval and count
ForwardedClean(a) ==
    LET gone == {"socket_options", "idle", "interval", "count"}
    IN adapters[a].base_kwargs =
           [k \in (DOMAIN ctor[a].kwargs) \ gone |-> ctor[a].kwargs[k]]

\* C10 as stated: the option list is stored before the base constructor runs
\* and socket_options, idle, interval and count are not forwarded to it, so
\* the pool manager the base constructor creates through init_poolmanager
\* receives the stored list.
C10_StoredBeforeBaseInit_AnyBuild ==
    \A a \in DOMAIN adapters :
        /\ ForwardedClean(a)
        /\ \A i \in DOMAIN calls :
              (calls[i].self = a /\ calls[i].during_init) =>
                  /\ ReceivesStored(i)
                  /\ Receives(i, ConstructedList(a))

\* C10, amended: as stated, except that the pool manager the base constructor
\* creates receives the stored list only when the build is >= 0x020400; on
\* older builds the stored list is set as well but not passed on.
C10_StoredBeforeBaseInit ==
    \A a \in DOMAIN adapters :
        /\ ForwardedClean(a)
        /\ StoredList(a) = ConstructedList(a)
        /\ \A i \in DOMAIN calls :
              (calls[i].self = a /\ calls[i].during_init /\ Supported) =>
                  /\ ReceivesStored(i)
                  /\ Receives(i, ConstructedList(a))

C10_Witness ==
    /\ Supported
    /\ \E i \in DOMAIN calls :
          /\ calls[i].during_init
          /\ Explicit(calls[i].self)
          /\ "pool_block" \in DOMAIN adapters[calls[i].self].base_kwargs
          /\ "pool_block" \in DOMAIN ctor[calls[i].self].kwargs
          /\ pools[i].block = TRUE
          /\ Receives(i, << <<6, 1, 0>> >>)

====
